---- MODULE Spec2Model ----
(***************************************************************************)
(* A model of scrape-v17.2-FINAL.mjs: the crawl loop of                    *)
(* scrapeCityWithDateRange, the merge of main / mergeWithExistingData /    *)
(* keepMostRecentInspections, the risk scoring, the classification of      *)
(* violations and facilities, and the row loops of scrapePageResults and   *)
(* scrapeViolationsModal.                                                  *)
(*                                                                         *)
(* Strings are TLA+ strings; the JavaScript string functions the code      *)
(* uses (trim, toLowerCase, startsWith, includes, parseInt, new Date) are  *)
(* computed character by character.                                        *)
(***************************************************************************)
EXTENDS Integers, Sequences, FiniteSets, TLC

VARIABLES
  \* ---- scrapeCityWithDateRange ----
  pc,                         \* position in scrapeCityWithDateRange
  pageNum,                    \* let pageNum (line 493)
  allResults,                 \* let allResults (line 492)
  seenEstablishments,         \* the Set of line 496
  consecutiveDuplicatePages,  \* line 497
  currentPage,                \* const currentPage (line 567), 0 before the first read
  outcome,                    \* which exit of the loop was taken ("" while running)
  returned,                   \* the value returned (line 487 / 685), <<>> before
  site,                       \* the page as served: is the main grid's pager there, its span text
  budget,                     \* what the site serves in one crawl: pages and records
  \* ---- history of the crawl (not program state) ----
  nScraped,                   \* number of scrapePageResults calls so far
  lastScraped,                \* pageNum of the latest scrapePageResults call, 0 if none
  pages,                      \* the non-empty pages scraped: [ord, num, results]
  lastClick,                  \* the latest pagination click: [kind, pageNum, text]
  clicksThisPage,             \* pagination clicks since the latest scrape
  lastWait,                   \* result of the latest waitForFunction: "none", "ok", "timeout"
  links                       \* the links seen on the page scraped last: [seen, next, ellipsis]

crawlVars == <<pc, pageNum, allResults, seenEstablishments, consecutiveDuplicatePages,
               currentPage, outcome, returned, site, budget,
               nScraped, lastScraped, pages, lastClick, clicksThisPage, lastWait, links>>

VARIABLES
  \* ---- main, mergeWithExistingData, keepMostRecentInspections ----
  mainPc,                     \* position in main
  file,                       \* CONFIG.OUTPUT_FILE: does it exist, and the records it holds
  allData,                    \* const allData (line 765)
  data,                       \* the objects of keepMostRecentInspections' argument
  input,                      \* history: that argument as it was passed
  idx,                        \* the next element of data the for loop takes (line 693)
  byEstablishment,            \* the Map of line 691: [key, ref] in insertion order
  finalData                   \* const finalData (line 777)

mergeVars == <<mainPc, file, allData, data, input, idx, byEstablishment, finalData>>

VARIABLES
  \* ---- calculateRiskScore ----
  scorePc,                    \* "call" before the call, "return" after
  violations,                 \* the arguments
  closureFlag,
  reinspectionFlag,
  riskScore                   \* the value returned, 0 before

scoreVars == <<scorePc, violations, closureFlag, reinspectionFlag, riskScore>>

VARIABLES
  \* ---- one call of classifyViolation + getViolationPoints, getRiskLevel or categorizeFacility ----
  callPc,                     \* "call" before the call, "return" after
  callee,                     \* the function called
  arg,                        \* its argument
  returnValue                 \* the value returned, "" before

callVars == <<callPc, callee, arg, returnValue>>

VARIABLES
  \* ---- scrapePageResults, scrapeViolationsModal ----
  rowPc,                      \* position in scrapePageResults / scrapeViolationsModal
  rows,                       \* const rows (line 333): the grid's rows as served
  rowIndex,                   \* let i (line 337): the row the for loop takes next, from 1
  rowResults,                 \* const results (line 331)
  rowViolations,              \* let violations (line 389)
  violationRows,              \* const violationRows (line 269): the detail view's rows
  violationIndex,             \* the violation row the loop of line 276 takes next
  modalViolations,            \* const violations (line 273)
  seenViolations,             \* the Set of line 274
  \* ---- history of the page (not program state) ----
  requested,                  \* was the violations link of the latest row clicked
  closes,                     \* closeModal calls during the latest row
  failure,                    \* what failed in the latest row, "" if nothing
  fates,                      \* what became of each row taken so far
  parsed                      \* the detail view's rows as extracted: [code, explanation, comments, read]

rowVars == <<rowPc, rows, rowIndex, rowResults, rowViolations, violationRows,
             violationIndex, modalViolations,
             seenViolations, requested, closes, failure, fates, parsed>>

vars == <<crawlVars, mergeVars, scoreVars, callVars, rowVars>>

-----------------------------------------------------------------------------
(* Bounds of the model *)
MaxPages == 4       \* pages the site serves in a bounded crawl
MaxResults == 4     \* records the site serves in a bounded crawl
MaxRows == 2        \* routine rows on one page
MaxRun == 2         \* records one crawl returns to main
MaxFile == 2        \* records of the output file before the first run
MaxViolations == 3  \* violations of one inspection
MaxGridRows == 2    \* rows of the results grid on one page

(* Program constants *)
MAX_DUPLICATE_PAGES == 3
PAGE_LIMIT == 1000

-----------------------------------------------------------------------------
(* JavaScript values and string functions *)

\* The number NaN (parseInt of a text without leading digits, the time of an Invalid Date).
NaN == -1

Digits == {"0", "1", "2", "3", "4", "5", "6", "7", "8", "9"}

DigitValue(c) ==
  CASE c = "0" -> 0 [] c = "1" -> 1 [] c = "2" -> 2 [] c = "3" -> 3 [] c = "4" -> 4
    [] c = "5" -> 5 [] c = "6" -> 6 [] c = "7" -> 7 [] c = "8" -> 8 [] c = "9" -> 9

CharAt(s, i) == SubSeq(s, i, i)

IsSpace(c) == c = " "

\* Length of the longest prefix of s made of digits, counted from position i.
RECURSIVE DigitRun(_, _)
DigitRun(s, i) ==
  IF i <= Len(s) /\ CharAt(s, i) \in Digits THEN 1 + DigitRun(s, i + 1) ELSE 0

\* Value of the decimal numeral s (digits only); 0 for the empty string.
RECURSIVE Numeral(_)
Numeral(s) ==
  IF Len(s) = 0 THEN 0
  ELSE 10 * Numeral(SubSeq(s, 1, Len(s) - 1)) + DigitValue(CharAt(s, Len(s)))

\* String.prototype.trim
RECURSIVE TrimStart(_)
TrimStart(s) ==
  IF Len(s) > 0 /\ IsSpace(CharAt(s, 1)) THEN TrimStart(SubSeq(s, 2, Len(s))) ELSE s

RECURSIVE TrimEnd(_)
TrimEnd(s) ==
  IF Len(s) > 0 /\ IsSpace(CharAt(s, Len(s))) THEN TrimEnd(SubSeq(s, 1, Len(s) - 1)) ELSE s

Trim(s) == TrimEnd(TrimStart(s))

\* parseInt(s) for unsigned texts: leading blanks skipped, then the leading digits;
\* NaN when there is none.
ParseInt(s) ==
  LET t == TrimStart(s)
      n == DigitRun(t, 1)
  IN IF n = 0 THEN NaN ELSE Numeral(SubSeq(t, 1, n))

\* String.prototype.startsWith / includes
StartsWith(s, t) == Len(t) <= Len(s) /\ SubSeq(s, 1, Len(t)) = t

Includes(s, t) ==
  \E i \in 1..(Len(s) - Len(t) + 1) : SubSeq(s, i, i + Len(t) - 1) = t

-----------------------------------------------------------------------------
(* Records of the results grid.  A scraped record keeps the fields the     *)
(* crawl and the merge read: name, addr, facilityType, inspectionDate, and *)
(* riskScore standing for the rest of the inspection data.                 *)

Rec(n, a, f, d, s) ==
  [name |-> n, addr |-> a, facilityType |-> f, inspectionDate |-> d, riskScore |-> s]

\* Rows the site serves: two inspections of one establishment, spelled differently.
PageRows ==
  { Rec("Joe's Diner", "123 Main St", "Restaurant", "01/01/2024", 0),
    Rec("JOE'S DINER", "123 Main St", "Restaurant", "06/01/2024", 15) }

SeqsUpTo(S, n) == UNION {[1..k -> S] : k \in 0..n}

\* What scrapePageResults can return for one page.
PageChoices == SeqsUpTo(PageRows, MaxRows)

-----------------------------------------------------------------------------
(* scrapeCityWithDateRange *)

\* const key = `${result.name}|${result.addr}|${result.inspectionDate}` (line 508)
LoopKey(result) == result.name \o "|" \o result.addr \o "|" \o result.inspectionDate

\* The for loop of lines 506-514: the duplicates counted on a page, given the set seen before it.
RECURSIVE DuplicatesOnPage(_, _)
DuplicatesOnPage(pageResults, seen) ==
  IF pageResults = <<>> THEN 0
  ELSE LET key == LoopKey(Head(pageResults))
       IN IF key \in seen
          THEN 1 + DuplicatesOnPage(Tail(pageResults), seen)
          ELSE DuplicatesOnPage(Tail(pageResults), seen \cup {key})

\* The set after the loop of lines 506-514.
SeenAfter(pageResults, seen) ==
  seen \cup {LoopKey(pageResults[i]) : i \in 1..Len(pageResults)}

\* The counter after a page, were line 531 missing.
NoResetDuplicatePages(pageResults, duplicatesOnPage, count) ==
  IF Len(pageResults) > 0 /\ duplicatesOnPage = Len(pageResults)
  THEN count + 1
  ELSE count

\* The counter after a page, were a page without records to leave it as it is.
KeepOnEmptyPage(pageResults, duplicatesOnPage, count) ==
  IF Len(pageResults) > 0 /\ duplicatesOnPage = Len(pageResults)
  THEN count + 1
  ELSE IF Len(pageResults) = 0 THEN count ELSE 0

\* Lines 521-532: the counter after a page.
NextDuplicatePages(pageResults, duplicatesOnPage, count) ==
  IF Len(pageResults) > 0 /\ duplicatesOnPage = Len(pageResults)
  THEN count + 1
  ELSE 0

\* Line 525
LoopDetected(count) == count >= MAX_DUPLICATE_PAGES

\* Line 567: parseInt(currentPageText) || 1
CurrentPage(text) ==
  LET n == ParseInt(text) IN IF n = NaN \/ n = 0 THEN 1 ELSE n

\* A comparison that only catches a page behind the expected one.
BehindOnlyMismatch(current, expected) == current < expected

\* Line 571: currentPage !== pageNum
PageMismatch(current, expected) == current # expected

\* The predicate of the direct click (lines 646-666) used after the "..." click.
AnyLaterPageVerified(s, expectedPage) ==
  s.pager /\ ParseInt(s.text) # NaN /\ ParseInt(s.text) > 1

\* Lines 601-617: the predicate polled after the "..." click.
EllipsisVerified(s, expectedPage) ==
  s.pager /\ ParseInt(s.text) # NaN /\ ParseInt(s.text) = expectedPage

\* Lines 646-666: the predicate polled after a direct click.
PageChanged(s) == s.pager /\ ParseInt(s.text) # NaN /\ ParseInt(s.text) > 1

\* What the site may show after a navigation towards page n (or a late grid
\* update): nothing new, no main pager, an unreadable span, a reset, page n, or
\* a skipped page.
SiteAfter(s, n) ==
  {s, [pager |-> FALSE, text |-> ""]}
    \cup {[pager |-> TRUE, text |-> t] : t \in {"", "0", "1", ToString(n), ToString(n + 1)}}

NoClick == [kind |-> "none", pageNum |-> 0, text |-> ""]

\* The pager's links not looked up yet.
NoLinks == [seen |-> FALSE, next |-> FALSE, ellipsis |-> FALSE]

\* A stop that returns nothing of what was accumulated.
StopDiscarding(why, results) ==
  /\ pc' = "done"
  /\ outcome' = why
  /\ returned' = <<>>

\* break out of the loop, then return allResults (line 685)
Stop(why, results) ==
  /\ pc' = "done"
  /\ outcome' = why
  /\ returned' = results

\* The other functions, not running.
IdleMerge ==
  /\ mainPc = "idle"
  /\ file = [exists |-> FALSE, records |-> <<>>]
  /\ allData = <<>>
  /\ data = <<>>
  /\ input = <<>>
  /\ idx = 0
  /\ byEstablishment = <<>>
  /\ finalData = <<>>

IdleScore ==
  /\ scorePc = "idle"
  /\ violations = <<>>
  /\ closureFlag = FALSE
  /\ reinspectionFlag = FALSE
  /\ riskScore = 0

IdleCalls ==
  /\ callPc = "idle"
  /\ callee = ""
  /\ arg = ""
  /\ returnValue = ""

IdleRows ==
  /\ rowPc = "idle"
  /\ rows = <<>>
  /\ rowIndex = 0
  /\ rowResults = <<>>
  /\ rowViolations = <<>>
  /\ violationRows = <<>>
  /\ violationIndex = 0
  /\ modalViolations = <<>>
  /\ seenViolations = {}
  /\ requested = FALSE
  /\ closes = 0
  /\ failure = ""
  /\ fates = <<>>
  /\ parsed = <<>>

InitCrawl ==
  /\ pc = "submit"
  /\ pageNum = 0
  /\ allResults = <<>>
  /\ seenEstablishments = {}
  /\ consecutiveDuplicatePages = 0
  /\ currentPage = 0
  /\ outcome = ""
  /\ returned = <<>>
  /\ site = [pager |-> FALSE, text |-> ""]
  /\ nScraped = 0
  /\ lastScraped = 0
  /\ pages = <<>>
  /\ lastClick = NoClick
  /\ clicksThisPage = 0
  /\ lastWait = "none"
  /\ links = NoLinks

\* Lines 456-497: submit the search; "No records found" returns [].
SubmitSearch ==
  /\ pc = "submit"
  /\ \E noResults \in BOOLEAN :
       IF noResults
       THEN /\ pc' = "done"
            /\ outcome' = "NoRecords"
            /\ UNCHANGED <<pageNum, site>>
       ELSE /\ pc' = "scrape"
            /\ outcome' = ""
            /\ pageNum' = 1
            /\ site' \in SiteAfter(site, 1)
  /\ UNCHANGED <<allResults, seenEstablishments, consecutiveDuplicatePages, currentPage,
                 returned, budget, nScraped, lastScraped, pages, lastClick,
                 clicksThisPage, lastWait, links>>
  /\ UNCHANGED <<mergeVars, scoreVars, callVars, rowVars>>

\* Lines 500-532: scrape the page, count its duplicates, accumulate, detect a loop.
ScrapePage ==
  /\ pc = "scrape"
  /\ nScraped < budget.pages
  /\ \E pageResults \in PageChoices :
       /\ Len(allResults) + Len(pageResults) <= budget.records
       /\ LET duplicatesOnPage == DuplicatesOnPage(pageResults, seenEstablishments)
              count == NextDuplicatePages(pageResults, duplicatesOnPage,
                                          consecutiveDuplicatePages)
          IN /\ seenEstablishments' = SeenAfter(pageResults, seenEstablishments)
             /\ allResults' = allResults \o pageResults
             /\ consecutiveDuplicatePages' = count
             /\ nScraped' = nScraped + 1
             /\ lastScraped' = pageNum
             /\ pages' = IF pageResults = <<>> THEN pages
                         ELSE Append(pages, [ord |-> nScraped + 1, num |-> pageNum,
                                             results |-> pageResults])
             /\ clicksThisPage' = 0
             /\ IF Len(pageResults) > 0 /\ duplicatesOnPage = Len(pageResults)
                   /\ LoopDetected(count)
                THEN Stop("PaginationLoop", allResults \o pageResults)
                ELSE /\ pc' = "pager"
                     /\ UNCHANGED <<outcome, returned>>
  /\ site' \in SiteAfter(site, pageNum)
  /\ links' = NoLinks
  /\ UNCHANGED <<pageNum, currentPage, budget, lastClick, lastWait>>
  /\ UNCHANGED <<mergeVars, scoreVars, callVars, rowVars>>

\* Lines 536-575: find the main grid's pager, read the page it shows, compare.
CheckPager ==
  /\ pc = "pager"
  /\ IF ~site.pager
     THEN /\ Stop("NoPager", allResults)
          /\ UNCHANGED currentPage
     ELSE /\ currentPage' = CurrentPage(site.text)
          /\ IF PageMismatch(currentPage', pageNum)
             THEN Stop("PageMismatch", allResults)
             ELSE /\ pc' = "advance"
                  /\ UNCHANGED <<outcome, returned>>
  /\ UNCHANGED <<pageNum, allResults, seenEstablishments, consecutiveDuplicatePages, site,
                 budget, nScraped, lastScraped, pages, lastClick, clicksThisPage, lastWait,
                 links>>
  /\ UNCHANGED <<mergeVars, scoreVars, callVars, rowVars>>

\* The "..." link taken whenever it is visible.
EllipsisFirst(nextPageExists, ellipsisExists) ==
  IF ellipsisExists THEN "ellipsis"
  ELSE IF nextPageExists THEN "direct" ELSE "none"

\* Lines 584-590 and 633-641: the control the advance uses.
AdvanceBy(nextPageExists, ellipsisExists) ==
  IF ~nextPageExists
  THEN IF ellipsisExists THEN "ellipsis" ELSE "none"
  ELSE "direct"

\* Lines 579-641: the direct link to nextPage if visible, else the "..." link, else stop.
Advance ==
  /\ pc = "advance"
  /\ LET nextPage == currentPage + 1 IN
     \E nextPageExists \in BOOLEAN, ellipsisExists \in BOOLEAN :
       /\ links' = [seen |-> TRUE, next |-> nextPageExists, ellipsis |-> ellipsisExists]
       /\ LET by == AdvanceBy(nextPageExists, ellipsisExists)
          IN IF by = "none"
             THEN /\ Stop("NoMorePages", allResults)
                  /\ UNCHANGED <<lastClick, clicksThisPage, site>>
             ELSE /\ lastClick' = [kind |-> by, pageNum |-> pageNum, text |-> site.text]
                  /\ clicksThisPage' = clicksThisPage + 1
                  /\ site' \in SiteAfter(site, nextPage)
                  /\ pc' = IF by = "ellipsis" THEN "verify" ELSE "wait"
                  /\ UNCHANGED <<outcome, returned>>
  /\ UNCHANGED <<pageNum, allResults, seenEstablishments, consecutiveDuplicatePages,
                 currentPage, budget, nScraped, lastScraped, pages, lastWait>>
  /\ UNCHANGED <<mergeVars, scoreVars, callVars, rowVars>>

\* Lines 598-632: after the "..." click the pager must show nextPage, or the crawl stops.
VerifyEllipsis ==
  /\ pc = "verify"
  /\ IF EllipsisVerified(site, currentPage + 1)
     THEN /\ lastWait' = "ok"
          /\ pageNum' = pageNum + 1
          /\ pc' = "scrape"
          /\ UNCHANGED <<outcome, returned>>
     ELSE /\ lastWait' = "timeout"
          /\ Stop("NavigationVerificationFailed", allResults)
          /\ UNCHANGED pageNum
  /\ UNCHANGED <<allResults, seenEstablishments, consecutiveDuplicatePages, currentPage,
                 site, budget, nScraped, lastScraped, pages, lastClick, clicksThisPage,
                 links>>
  /\ UNCHANGED <<mergeVars, scoreVars, callVars, rowVars>>

\* A wait that stops the crawl when it times out.
WaitDirectHard ==
  /\ pc = "wait"
  /\ IF PageChanged(site)
     THEN /\ lastWait' = "ok"
          /\ pageNum' = pageNum + 1
          /\ IF pageNum' > PAGE_LIMIT
             THEN Stop("PageLimit", allResults)
             ELSE /\ pc' = "scrape"
                  /\ UNCHANGED <<outcome, returned>>
     ELSE /\ lastWait' = "timeout"
          /\ Stop("NavigationVerificationFailed", allResults)
          /\ UNCHANGED pageNum
  /\ UNCHANGED <<allResults, seenEstablishments, consecutiveDuplicatePages, currentPage,
                 site, budget, nScraped, lastScraped, pages, lastClick, clicksThisPage,
                 links>>
  /\ UNCHANGED <<mergeVars, scoreVars, callVars, rowVars>>

\* Lines 643-682: after a direct click the wait is soft; pageNum++ and the page limit.
WaitDirect ==
  /\ pc = "wait"
  /\ lastWait' = IF PageChanged(site) THEN "ok" ELSE "timeout"
  /\ pageNum' = pageNum + 1
  /\ IF pageNum' > PAGE_LIMIT
     THEN Stop("PageLimit", allResults)
     ELSE /\ pc' = "scrape"
          /\ UNCHANGED <<outcome, returned>>
  /\ UNCHANGED <<allResults, seenEstablishments, consecutiveDuplicatePages, currentPage,
                 site, budget, nScraped, lastScraped, pages, lastClick, clicksThisPage,
                 links>>
  /\ UNCHANGED <<mergeVars, scoreVars, callVars, rowVars>>

NextCrawl ==
  \/ SubmitSearch
  \/ ScrapePage
  \/ CheckPager
  \/ Advance
  \/ VerifyEllipsis
  \/ WaitDirect

\* A bounded crawl: the site serves at most MaxPages pages and MaxResults records.
Init ==
  /\ InitCrawl
  /\ budget = [pages |-> MaxPages, records |-> MaxResults]
  /\ IdleMerge
  /\ IdleScore
  /\ IdleCalls
  /\ IdleRows

Next == NextCrawl

Spec == Init /\ [][Next]_vars

\* A long crawl: the site serves more pages than the page limit, none of them with
\* a routine row.
InitCeiling ==
  /\ InitCrawl
  /\ budget = [pages |-> PAGE_LIMIT + 2, records |-> 0]
  /\ IdleMerge
  /\ IdleScore
  /\ IdleCalls
  /\ IdleRows

NextCeiling == NextCrawl

SpecCeiling == InitCeiling /\ [][NextCeiling]_vars

-----------------------------------------------------------------------------
(* main, mergeWithExistingData, keepMostRecentInspections *)

LowerChar(c) ==
  CASE c = "A" -> "a" [] c = "B" -> "b" [] c = "C" -> "c" [] c = "D" -> "d"
    [] c = "E" -> "e" [] c = "F" -> "f" [] c = "G" -> "g" [] c = "H" -> "h"
    [] c = "I" -> "i" [] c = "J" -> "j" [] c = "K" -> "k" [] c = "L" -> "l"
    [] c = "M" -> "m" [] c = "N" -> "n" [] c = "O" -> "o" [] c = "P" -> "p"
    [] c = "Q" -> "q" [] c = "R" -> "r" [] c = "S" -> "s" [] c = "T" -> "t"
    [] c = "U" -> "u" [] c = "V" -> "v" [] c = "W" -> "w" [] c = "X" -> "x"
    [] c = "Y" -> "y" [] c = "Z" -> "z" [] OTHER -> c

\* String.prototype.toLowerCase
RECURSIVE ToLowerCase(_)
ToLowerCase(s) ==
  IF Len(s) = 0 THEN s ELSE LowerChar(CharAt(s, 1)) \o ToLowerCase(SubSeq(s, 2, Len(s)))

\* new Date(text).getTime() for the grid's dates, M/D/YYYY, counted in days (a
\* year of 12 months of 31 days keeps the order of the dates); NaN (Invalid Date)
\* for a text that is no such date.
DateTime(text) ==
  LET a == DigitRun(text, 1)
      b == DigitRun(text, a + 2)
      c == DigitRun(text, a + b + 3)
      month == Numeral(SubSeq(text, 1, a))
      day   == Numeral(SubSeq(text, a + 2, a + b + 1))
      year  == Numeral(SubSeq(text, a + b + 3, a + b + c + 2))
  IN IF /\ a \in 1..2 /\ b \in 1..2 /\ c = 4
        /\ Len(text) = a + b + c + 2
        /\ CharAt(text, a + 1) = "/" /\ CharAt(text, a + b + 2) = "/"
        /\ month \in 1..12 /\ day \in 1..31
     THEN year * 372 + (month - 1) * 31 + day
     ELSE NaN

\* Line 694: the key of a record in the Map.
CrossKey(record) ==
  Trim(ToLowerCase(record.name)) \o "|" \o Trim(ToLowerCase(record.addr))

\* Line 704: record.facilityType && !existing.facilityType ("" is the missing field).
Backfills(record, existing) == record.facilityType # "" /\ existing.facilityType = ""

\* A comparison that also replaces on an equal date.
ReplacesOnTie(record, existing) ==
  LET existingDate == DateTime(existing.inspectionDate)
      currentDate  == DateTime(record.inspectionDate)
  IN currentDate # NaN /\ existingDate # NaN /\ currentDate >= existingDate

\* Lines 700-701 and 710: currentDate > existingDate, false when either is Invalid Date.
Replaces(record, existing) ==
  LET existingDate == DateTime(existing.inspectionDate)
      currentDate  == DateTime(record.inspectionDate)
  IN currentDate # NaN /\ existingDate # NaN /\ currentDate > existingDate

\* A Map that never finds a key.
NeverHas(map, key) == FALSE

\* Map.prototype.has and the position of a key in the Map's insertion order.
MapHas(map, key) == \E i \in 1..Len(map) : map[i].key = key

MapIndex(map, key) == CHOOSE i \in 1..Len(map) : map[i].key = key

\* Line 717: Array.from(byEstablishment.values()), the objects the Map refers to.
MapValues(map, objects) == [i \in 1..Len(map) |-> objects[map[i].ref]]

\* Records a crawl returns (scrapePageResults trims the name and the address and
\* always sets facilityType): four inspections of one establishment, one of them
\* without a readable date, two of the same day, and another establishment.
ScrapePool ==
  PageRows \cup
  { Rec("Joe's Diner", "123 Main St", "Restaurant", "", 8),
    Rec("Joe's Diner", "123 Main St", "Restaurant", "1/1/2024", 3),
    Rec("Cafe Roma", "9 Oak Ave", "Coffee Shop/Cafe", "03/15/2024", 0) }

\* Records of a file written before facilityType existed.
LegacyPool ==
  { Rec(" Joe's Diner", "123 Main St", "", "03/15/2024", 8),
    Rec("Cafe Roma", "9 Oak Ave", "", "", 1) }

UniqueKeys(records) ==
  \A i, j \in 1..Len(records) : CrossKey(records[i]) = CrossKey(records[j]) => i = j

\* The output file before the first run: none, or one record per establishment.
InitialFiles ==
  {[exists |-> FALSE, records |-> <<>>]} \cup
  {[exists |-> TRUE, records |-> f] :
     f \in {g \in SeqsUpTo(LegacyPool \cup ScrapePool, MaxFile) : UniqueKeys(g)}}

InitMain ==
  /\ mainPc = "crawl"
  /\ file \in InitialFiles
  /\ allData = <<>>
  /\ data = <<>>
  /\ input = <<>>
  /\ idx = 0
  /\ byEstablishment = <<>>
  /\ finalData = <<>>

\* A run that merges and writes whatever the crawl returns.
CrawlAlwaysMerges ==
  /\ mainPc = "crawl"
  /\ \E results \in SeqsUpTo(ScrapePool, MaxRun) :
       /\ allData' = results
       /\ mainPc' = "merge"
  /\ UNCHANGED <<file, data, input, idx, byEstablishment, finalData>>
  /\ UNCHANGED <<crawlVars, scoreVars, callVars, rowVars>>

\* Lines 765-775: the crawl returns; nothing scraped ends the run.
CrawlReturns ==
  /\ mainPc = "crawl"
  /\ \E results \in SeqsUpTo(ScrapePool, MaxRun) :
       /\ allData' = results
       /\ mainPc' = IF Len(results) = 0 THEN "end" ELSE "merge"
  /\ UNCHANGED <<file, data, input, idx, byEstablishment, finalData>>
  /\ UNCHANGED <<crawlVars, scoreVars, callVars, rowVars>>

\* Lines 723-735: no file, the new data as it is; else the file's records, then the new ones.
mergeWithExistingData ==
  /\ mainPc = "merge"
  /\ IF ~file.exists
     THEN /\ finalData' = allData
          /\ mainPc' = "write"
          /\ UNCHANGED <<data, input, idx, byEstablishment>>
     ELSE /\ data' = file.records \o allData
          /\ input' = file.records \o allData
          /\ idx' = 1
          /\ byEstablishment' = <<>>
          /\ mainPc' = "keep"
          /\ UNCHANGED finalData
  /\ UNCHANGED <<file, allData>>
  /\ UNCHANGED <<crawlVars, scoreVars, callVars, rowVars>>

\* Lines 693-715: one turn of the for loop of keepMostRecentInspections.
KeepRecord ==
  /\ mainPc = "keep"
  /\ idx <= Len(data)
  /\ LET record == data[idx]
         key == CrossKey(record)
     IN IF ~MapHas(byEstablishment, key)
        THEN /\ byEstablishment' = Append(byEstablishment, [key |-> key, ref |-> idx])
             /\ UNCHANGED data
        ELSE LET i == MapIndex(byEstablishment, key)
                 ref == byEstablishment[i].ref
                 existing == data[ref]
             IN /\ data' = IF Backfills(record, existing)
                           THEN [data EXCEPT ![ref].facilityType = record.facilityType]
                           ELSE data
                /\ byEstablishment' = IF Replaces(record, existing)
                                      THEN [byEstablishment EXCEPT ![i].ref = idx]
                                      ELSE byEstablishment
  /\ idx' = idx + 1
  /\ UNCHANGED <<mainPc, file, allData, input, finalData>>
  /\ UNCHANGED <<crawlVars, scoreVars, callVars, rowVars>>

\* Lines 717-720, 736-740 and 777: the Map's values are the merged data.
KeepDone ==
  /\ mainPc = "keep"
  /\ idx > Len(data)
  /\ finalData' = MapValues(byEstablishment, data)
  /\ mainPc' = "write"
  /\ UNCHANGED <<file, allData, data, input, idx, byEstablishment>>
  /\ UNCHANGED <<crawlVars, scoreVars, callVars, rowVars>>

\* Line 784: the file is overwritten with finalData.
WriteFile ==
  /\ mainPc = "write"
  /\ file' = [exists |-> TRUE, records |-> finalData]
  /\ mainPc' = "end"
  /\ UNCHANGED <<allData, data, input, idx, byEstablishment, finalData>>
  /\ UNCHANGED <<crawlVars, scoreVars, callVars, rowVars>>

\* Line 829: the program is run again, with the file as the last run left it.
RunAgain ==
  /\ mainPc = "end"
  /\ mainPc' = "crawl"
  /\ allData' = <<>>
  /\ data' = <<>>
  /\ input' = <<>>
  /\ idx' = 0
  /\ byEstablishment' = <<>>
  /\ finalData' = <<>>
  /\ UNCHANGED file
  /\ UNCHANGED <<crawlVars, scoreVars, callVars, rowVars>>

\* The crawl, not running.
IdleCrawl ==
  /\ InitCrawl
  /\ budget = [pages |-> 0, records |-> 0]

InitMerge ==
  /\ InitMain
  /\ IdleCrawl
  /\ IdleScore
  /\ IdleCalls
  /\ IdleRows

NextMerge ==
  \/ CrawlReturns
  \/ mergeWithExistingData
  \/ KeepRecord
  \/ KeepDone
  \/ WriteFile
  \/ RunAgain

SpecMerge == InitMerge /\ [][NextMerge]_vars

-----------------------------------------------------------------------------
(* getViolationPoints, calculateRiskScore *)

\* Lines 115-120: VIOLATION_SEVERITY
HIGH_PRIORITY ==
  <<"3-501.16(A)(2)", "3-501.16(A)(1)", "3-401.11", "3-501.14", "3-302.11(A)(1)",
    "3-302.11(A)(2)", "4-601.11(A)", "2-301.14", "3-201.11", "3-202.15">>

MEDIUM_PRIORITY ==
  <<"3-501.17", "2-501.11", "2-401.11", "4-702.11", "4-501.114", "3-603.11", "3-305.11">>

LOW_PRIORITY ==
  <<"2-102.12(A)", "2-103.11(O)", "5-205.11", "5-202.12(A)", "4-501.11", "4-903.11">>

CORE ==
  <<"7-102.11", "6-301.14", "6-301.12", "7-204.11", "6-301.11", "7-207.11(B)",
    "7-202.11", "7-201.11">>

\* The for loops of lines 155-166: some code of the list is at the start of, or in, the text.
MatchesList(normalized, list) ==
  \E i \in 1..Len(list) : StartsWith(normalized, list[i]) \/ Includes(normalized, list[i])

\* Lines 169-170: critical.some(c => normalized.startsWith(c))
CriticalPrefix(normalized) ==
  \E c \in {"2-", "3-", "4-", "5-"} : StartsWith(normalized, c)

\* getViolationPoints with the LOW table looked up before the MEDIUM table.
pointsLowFirst(code) ==
  LET normalized == Trim(code)
  IN IF MatchesList(normalized, HIGH_PRIORITY) THEN 15
     ELSE IF MatchesList(normalized, LOW_PRIORITY) THEN 3
     ELSE IF MatchesList(normalized, MEDIUM_PRIORITY) THEN 8
     ELSE IF MatchesList(normalized, CORE) THEN 1
     ELSE IF CriticalPrefix(normalized) THEN 8 ELSE 1

\* Lines 152-171
getViolationPoints(code) ==
  LET normalized == Trim(code)
  IN IF MatchesList(normalized, HIGH_PRIORITY) THEN 15
     ELSE IF MatchesList(normalized, MEDIUM_PRIORITY) THEN 8
     ELSE IF MatchesList(normalized, LOW_PRIORITY) THEN 3
     ELSE IF MatchesList(normalized, CORE) THEN 1
     ELSE IF CriticalPrefix(normalized) THEN 8 ELSE 1

\* Line 178: v.violationCode || v.code || '' ("" is the missing field)
CodeOf(v) == IF v.violationCode # "" THEN v.violationCode ELSE v.code

\* Lines 174-180: the forEach, from the score so far.
RECURSIVE ScoreEach(_, _)
ScoreEach(vs, score) ==
  IF vs = <<>> THEN score
  ELSE ScoreEach(Tail(vs), score + getViolationPoints(CodeOf(Head(vs))))

JsMin(a, b) == IF a < b THEN a ELSE b

\* The score wrapped around at 100 instead of clamped.
wrappedRiskScore(vs, closure, reinspection) ==
  LET each == ScoreEach(vs, 0)
      withClosure == IF closure THEN each + 50 ELSE each
      score == IF reinspection THEN withClosure + 10 ELSE withClosure
  IN score % 101

\* Lines 173-187
calculateRiskScore(vs, closure, reinspection) ==
  LET each == ScoreEach(vs, 0)
      withClosure == IF closure THEN each + 50 ELSE each
      score == IF reinspection THEN withClosure + 10 ELSE withClosure
  IN JsMin(score, 100)

\* Violations as scrapeViolationsModal pushes them (violationCode), and one with
\* the field named code; a code of each severity list, one with text around it,
\* and codes of no list.
ViolationPool ==
  { [violationCode |-> "3-501.16(A)(2) observed", code |-> ""],
    [violationCode |-> " 4-501.114 ", code |-> ""],
    [violationCode |-> "4-501.11", code |-> ""],
    [violationCode |-> "6-301.14", code |-> ""],
    [violationCode |-> "9-999.99", code |-> ""],
    [violationCode |-> "", code |-> "2-999.99"] }

InitScore ==
  /\ scorePc = "call"
  /\ violations \in SeqsUpTo(ViolationPool, MaxViolations)
  /\ closureFlag \in BOOLEAN
  /\ reinspectionFlag \in BOOLEAN
  /\ riskScore = 0

\* Line 417: const riskScore = calculateRiskScore(violations, closureFlag, reinspectionFlag)
CalculateRiskScore ==
  /\ scorePc = "call"
  /\ riskScore' = calculateRiskScore(violations, closureFlag, reinspectionFlag)
  /\ scorePc' = "return"
  /\ UNCHANGED <<violations, closureFlag, reinspectionFlag>>
  /\ UNCHANGED <<crawlVars, mergeVars, callVars, rowVars>>

InitScoring ==
  /\ InitScore
  /\ IdleCrawl
  /\ IdleMerge
  /\ IdleCalls
  /\ IdleRows

NextScore == CalculateRiskScore

SpecScore == InitScoring /\ [][NextScore]_vars

-----------------------------------------------------------------------------
(* classifyViolation, getRiskLevel, categorizeFacility *)

\* Every violation taken as critical.
classifyAllCritical(code) == "critical"

\* Lines 122-150
classifyViolation(code) ==
  LET normalized == Trim(code)
  IN IF MatchesList(normalized, HIGH_PRIORITY) THEN "critical"
     ELSE IF MatchesList(normalized, MEDIUM_PRIORITY) THEN "critical"
     ELSE IF MatchesList(normalized, LOW_PRIORITY) THEN "critical"
     ELSE IF MatchesList(normalized, CORE) THEN "noncritical"
     ELSE IF CriticalPrefix(normalized) THEN "critical" ELSE "noncritical"

\* The bands with each upper limit left out of its band.
riskLevelBelow(score) ==
  IF score = 0 THEN "EXCELLENT"
  ELSE IF score < 5 THEN "LOW"
  ELSE IF score < 20 THEN "MEDIUM"
  ELSE IF score < 40 THEN "HIGH"
  ELSE "CRITICAL"

\* Lines 189-195
getRiskLevel(score) ==
  IF score = 0 THEN "EXCELLENT"
  ELSE IF score <= 5 THEN "LOW"
  ELSE IF score <= 20 THEN "MEDIUM"
  ELSE IF score <= 40 THEN "HIGH"
  ELSE "CRITICAL"

\* Lines 21-74, in the order of Object.entries
FACILITY_CATEGORIES ==
  << [category |-> "School", priority |-> 10, keywords |->
        <<"school", "elementary", "middle school", "high school", "preschool", "daycare",
          "day care", "childcare", "child care", "university", "college", "academy",
          "kindergarten", "head start">>],
     [category |-> "Senior/Community Center", priority |-> 9, keywords |->
        <<"nutrition program", "senior center", "elderly", "retirement", "assisted living",
          "nursing home", "care center", "community center", "senior living", "memory care",
          "adult day">>],
     [category |-> "Fast Food", priority |-> 8, keywords |->
        <<"mcdonalds", "mcdonald's", "burger king", "subway", "taco bell", "wendy", "wendys",
          "kfc", "arby", "domino", "pizza hut", "papa john", "sonic", "dairy queen", "dq ",
          "popeyes", "chick-fil-a", "chipotle", "panera", "jimmy john", "qdoba", "taco john",
          "culver", "raising cane", "five guys", "shake shack", "whataburger", "drive thru",
          "drive-thru">>],
     [category |-> "Gas Station/Convenience", priority |-> 7, keywords |->
        <<"casey", "kum & go", "kum and go", "kwik trip", "kwik star", "quiktrip",
          "quick trip", "bp ", "shell", "git n go", "git-n-go", "conoco", "phillips 66",
          "7-eleven", "speedway", "pilot", "flying j", "circle k", "marathon", "loves",
          "gas station", "convenience store", "c-store", "truck stop">>],
     [category |-> "Grocery Store", priority |-> 6, keywords |->
        <<"hy-vee", "aldi", "walmart", "target", "fareway", "whole foods", "trader joe",
          "fresh thyme", "natural grocers", "kroger", "costco", "sam's club", "sams club",
          "grocery store", "grocery", "market", "supermarket", "food mart", "food market",
          "asian market", "asian grocery", "international market", "ethnic market">>],
     [category |-> "Bar/Brewery/Distillery", priority |-> 5, keywords |->
        <<"bar", "pub", "brewery", "brewing", "brewpub", "taproom", "tavern", "lounge",
          "saloon", "sports bar", "nightclub", "night club", "distillery", "winery",
          "wine bar", "cocktail lounge", "cocktail bar">>],
     [category |-> "Coffee Shop/Cafe", priority |-> 4, keywords |->
        <<"starbucks", "caribou", "dunkin", "peet's", "dutch bros", "tim horton", "coffee",
          "cafe", "café", "espresso", "coffee shop", "coffee house", "coffeehouse">>],
     [category |-> "Bakery/Dessert", priority |-> 3, keywords |->
        <<"bakery", "cupcake", "donut", "doughnut", "ice cream", "gelato", "frozen yogurt",
          "candy", "chocolate", "sweet", "pastry", "cookies", "dessert", "confection",
          "cake", "fudge", "yogurt shop">>],
     [category |-> "Hotel/Lodging", priority |-> 2, keywords |->
        <<"hotel", "motel", "inn", "resort", "lodge", "embassy suites", "holiday inn",
          "marriott", "hilton", "hampton", "hyatt", "sheraton", "radisson", "comfort inn",
          "best western", "la quinta", "courtyard", "residence inn">>],
     [category |-> "Recreation Facility", priority |-> 1, keywords |->
        <<"bowling", "golf", "country club", "athletic club", "fitness", "gym", "pool hall",
          "billiards", "skating", "rink", "laser tag", "arcade", "theater", "cinema", "ymca",
          "ywca", "pickleball", "tennis club", "sports complex">>],
     [category |-> "Food Truck/Mobile", priority |-> 0, keywords |->
        <<"food truck", "mobile", " cart", "food cart", "trailer", "vendor",
          "mobile kitchen", "mobile food">>],
     [category |-> "Catering", priority |-> -1, keywords |->
        <<"catering", "caterer", "banquet", "event catering">>],
     [category |-> "Restaurant", priority |-> -999, keywords |-> <<>>] >>

\* Lines 81-82: some keyword of the category is in the text.
KeywordIn(text, config) ==
  \E k \in 1..Len(config.keywords) : Includes(text, ToLowerCase(config.keywords[k]))

\* A comparison that lets every matching category replace the best match.
AnyPriority(priority, bestPriority) == TRUE

\* Line 83: config.priority > bestMatch.priority
Better(priority, bestPriority) == priority > bestPriority

\* Lines 80-89: the loop over the categories, from the k-th, with the best match so far.
RECURSIVE ScanCategories(_, _, _)
ScanCategories(text, k, bestMatch) ==
  IF k > Len(FACILITY_CATEGORIES) THEN bestMatch
  ELSE LET config == FACILITY_CATEGORIES[k]
       IN ScanCategories(text, k + 1,
            IF KeywordIn(text, config) /\ Better(config.priority, bestMatch.priority)
            THEN [category |-> config.category, priority |-> config.priority]
            ELSE bestMatch)

\* Lines 76-92
categorizeFacility(name, addr) ==
  LET text == ToLowerCase(name \o " " \o addr)
  IN ScanCategories(text, 1, [category |-> "Restaurant", priority |-> -999]).category

\* The codes of a severity list.
CodesOf(list) == {list[k] : k \in 1..Len(list)}

TableCodes == CodesOf(HIGH_PRIORITY) \cup CodesOf(MEDIUM_PRIORITY)
                \cup CodesOf(LOW_PRIORITY) \cup CodesOf(CORE)

\* Violation codes as read from a detail view: the listed codes, bare, padded and
\* inside a longer text; codes of no list; texts with codes of two lists.
CodeTexts ==
  TableCodes
    \cup {" " \o c \o " " : c \in TableCodes}
    \cup {"see " \o c : c \in TableCodes}
    \cup {"", "2-999.99", " 2-999.99", "3-101.11", "4-1", "5-", "6-999.99", "7-1",
          "8-404.11", "12-3", "x 2-1", "7-102.11 and 3-501.16(A)(2)", "6-301.14, 4-501.114",
          "5-205.11 7-201.11"}

\* The largest score calculateRiskScore returns (line 186).
MAX_SCORE == 100

\* Names and addresses of the grid.
FacilityNames ==
  {"Joe's Diner", "Lincoln School Bakery", "Bakery at Lincoln School",
   "Holiday Inn Sports Bar", "McDonald's #4213", "Barb's Catering", "Dinner Bell"}

FacilityAddrs == {"", "12 Market St", "4 College Ave"}

InitCalls ==
  /\ callPc = "call"
  /\ \/ callee = "classifyViolation" /\ arg \in CodeTexts
     \/ callee = "getRiskLevel" /\ arg \in 0..MAX_SCORE
     \/ callee = "categorizeFacility"
          /\ arg \in {[name |-> n, addr |-> a] : n \in FacilityNames, a \in FacilityAddrs}
  /\ returnValue = ""

\* Lines 301 and 179: the section and the points of one violation code.
ClassifyViolation ==
  /\ callPc = "call"
  /\ callee = "classifyViolation"
  /\ returnValue' = [section |-> classifyViolation(arg), points |-> getViolationPoints(arg)]
  /\ callPc' = "return"
  /\ UNCHANGED <<callee, arg>>
  /\ UNCHANGED <<crawlVars, mergeVars, scoreVars, rowVars>>

\* Line 418: const riskLevel = getRiskLevel(riskScore)
GetRiskLevel ==
  /\ callPc = "call"
  /\ callee = "getRiskLevel"
  /\ returnValue' = getRiskLevel(arg)
  /\ callPc' = "return"
  /\ UNCHANGED <<callee, arg>>
  /\ UNCHANGED <<crawlVars, mergeVars, scoreVars, rowVars>>

\* Line 420: const facilityType = categorizeFacility(establishmentName, address)
CategorizeFacility ==
  /\ callPc = "call"
  /\ callee = "categorizeFacility"
  /\ returnValue' = categorizeFacility(arg.name, arg.addr)
  /\ callPc' = "return"
  /\ UNCHANGED <<callee, arg>>
  /\ UNCHANGED <<crawlVars, mergeVars, scoreVars, rowVars>>

InitCalling ==
  /\ InitCalls
  /\ IdleCrawl
  /\ IdleMerge
  /\ IdleScore
  /\ IdleRows

NextCalls ==
  \/ ClassifyViolation
  \/ GetRiskLevel
  \/ CategorizeFacility

SpecCalls == InitCalling /\ [][NextCalls]_vars

-----------------------------------------------------------------------------
(* scrapePageResults, scrapeViolationsModal *)

\* The first position of label in text, whatever the case of the letters; 0 if none.
IndexOfLabel(text, label) ==
  LET hits == {p \in 1..(Len(text) - Len(label) + 1) :
                 ToLowerCase(SubSeq(text, p, p + Len(label) - 1)) = ToLowerCase(label)}
  IN IF hits = {} THEN 0 ELSE CHOOSE p \in hits : \A q \in hits : p <= q

\* text.replace(/<label>\s*/i, ''): the first occurrence and the blanks after it.
RemoveLabel(text, label) ==
  LET p == IndexOfLabel(text, label)
  IN IF p = 0 THEN text
     ELSE SubSeq(text, 1, p - 1) \o TrimStart(SubSeq(text, p + Len(label), Len(text)))

\* Line 282
CodeExplanation(text) == Trim(RemoveLabel(text, "Code Explanation"))

\* Lines 286-289
InspectorComments(text) ==
  Trim(RemoveLabel(RemoveLabel(text, "Inspector Comments"), "--Observation:"))

\* Line 292: `${violationCode}|${codeExplanation}|${inspectorComments}`
UniqueKey(violationCode, codeExplanation, inspectorComments) ==
  violationCode \o "|" \o codeExplanation \o "|" \o inspectorComments

\* A filter that lets every inspection type through.
AnyInspection(inspectionType) == TRUE

\* Line 371: inspectionType.toLowerCase().includes('routine')
IsRoutine(inspectionType) == Includes(ToLowerCase(inspectionType), "routine")

\* Line 379: violationsText.trim().length > 0
HasViolations(violationsText) == Len(Trim(violationsText)) > 0

\* Lines 413-414: violations.filter(v => v.section === section).length
CountSection(vs, section) == Cardinality({k \in 1..Len(vs) : vs[k].section = section})

\* Lines 409-442: the record pushed for a row with its violations.
RecordOf(row, vs) ==
  LET name == Trim(row.name)
      addr == Trim(row.addr)
      lower == ToLowerCase(row.inspectionType)
      closure == Includes(lower, "closure")
      reinspection == Includes(lower, "follow") \/ Includes(lower, "reinspection")
      score == calculateRiskScore(vs, closure, reinspection)
  IN [name |-> name, addr |-> addr,
      facilityType |-> categorizeFacility(name, addr),
      inspectionDate |-> row.inspectionDate,
      inspectionType |-> row.inspectionType,
      violations |-> vs,
      closureFlag |-> closure,
      reinspectionFlag |-> reinspection,
      criticalCount |-> CountSection(vs, "critical"),
      noncriticalCount |-> CountSection(vs, "noncritical"),
      totalViolations |-> Len(vs),
      riskScore |-> score,
      riskLevel |-> getRiskLevel(score)]

GridRow(c, n, a, d, t, v) ==
  [cells |-> c, name |-> n, addr |-> a, inspectionDate |-> d, inspectionType |-> t,
   violationsText |-> v]

\* Rows of the results grid: one with too few columns, routine inspections with
\* and without a violations link, and a complaint inspection with one.
GridRows ==
  { GridRow(5, "Short Row", "1 Elm St", "01/01/2024", "Routine", "1"),
    GridRow(6, "Joe's Diner ", "123 Main St", "01/01/2024", "ROUTINE", " "),
    GridRow(6, "Cafe Roma", "9 Oak Ave", "03/15/2024", "Routine", "2"),
    GridRow(6, "Joe's Diner", "123 Main St", "02/02/2024", "Complaint", "1") }

ViolationRow(c, x, m) == [code |-> c, explanation |-> x, comments |-> m]

\* Detail views: none, one violation, the same violation twice (once with the
\* panels' labels), a repeat after another row, texts with the key's separator
\* in them, a row without a code.
DetailViews ==
  LET labelled == ViolationRow("3-501.14", "Code Explanation Cooling",
                               "Inspector Comments --Observation: soup")
      plain    == ViolationRow("3-501.14", "Cooling", "soup")
      other    == ViolationRow("3-501.14", "Cooling", "rice")
      barLeft  == ViolationRow("6-301.14", "a|b", "c")
      barRight == ViolationRow("6-301.14", "a", "b|c")
      noCode   == ViolationRow("", "Soap", "none")
  IN { <<>>, <<labelled>>, <<labelled, plain>>, <<other, plain, other>>,
       <<barLeft, barRight>>, <<noCode, other>> }

\* The page given up at the row that is skipped.
AbortPage(why) ==
  /\ fates' = Append(fates, [fate |-> "skipped", why |-> why, at |-> 0])
  /\ rowPc' = "return"
  /\ UNCHANGED rowIndex

\* continue (lines 345, 373), or the end of the catch block (line 449): the next row.
NextRow(why) ==
  /\ fates' = Append(fates, [fate |-> "skipped", why |-> why, at |-> 0])
  /\ rowPc' = "row"
  /\ rowIndex' = rowIndex + 1

InitRows ==
  /\ rowPc = "row"
  /\ rows \in SeqsUpTo(GridRows, MaxGridRows)
  /\ rowIndex = 1
  /\ rowResults = <<>>
  /\ rowViolations = <<>>
  /\ violationRows = <<>>
  /\ violationIndex = 0
  /\ modalViolations = <<>>
  /\ seenViolations = {}
  /\ requested = FALSE
  /\ closes = 0
  /\ failure = ""
  /\ fates = <<>>
  /\ parsed = <<>>

\* Lines 337-391: the row's cells are read; a throwing await is caught at line 446
\* (closeModal, next row); a short row and a non-routine row are skipped.
BeginRow ==
  /\ rowPc = "row"
  /\ rowIndex <= Len(rows)
  /\ LET row == rows[rowIndex] IN
     \E thrown \in BOOLEAN :
       /\ requested' = FALSE
       /\ rowViolations' = <<>>
       /\ IF thrown
          THEN /\ closes' = 1
               /\ failure' = "exception"
               /\ NextRow("exception")
          ELSE /\ closes' = 0
               /\ IF row.cells < 6
                  THEN failure' = "columns" /\ NextRow("columns")
                  ELSE IF ~IsRoutine(row.inspectionType)
                  THEN failure' = "" /\ NextRow("notRoutine")
                  ELSE /\ failure' = ""
                       /\ rowPc' = IF HasViolations(row.violationsText) THEN "click" ELSE "push"
                       /\ UNCHANGED <<rowIndex, fates>>
  /\ UNCHANGED <<rows, rowResults, violationRows, violationIndex, modalViolations,
                 seenViolations, parsed>>
  /\ UNCHANGED <<crawlVars, mergeVars, scoreVars, callVars>>

\* Lines 393-407: the violations link is clicked; a click that throws is caught at
\* line 403 (closeModal) and the row goes on without violations.
ClickViolations ==
  /\ rowPc = "click"
  /\ requested' = TRUE
  /\ \E thrown \in BOOLEAN :
       IF thrown
       THEN /\ closes' = closes + 1
            /\ failure' = "click"
            /\ rowPc' = "push"
       ELSE /\ rowPc' = "modal"
            /\ UNCHANGED <<closes, failure>>
  /\ UNCHANGED <<rows, rowIndex, rowResults, rowViolations, violationRows, violationIndex,
                 modalViolations, seenViolations, fates, parsed>>
  /\ UNCHANGED <<crawlVars, mergeVars, scoreVars, callVars>>

\* Lines 251-274: the detail view is awaited; if it does not appear null is returned
\* (line 258); an await that throws is caught at line 321 (closeModal, null).
WaitModal ==
  /\ rowPc = "modal"
  /\ \/ /\ failure' = "reveal"
        /\ rowPc' = "push"
        /\ UNCHANGED <<closes, violationRows, violationIndex, modalViolations,
                       seenViolations, parsed>>
     \/ /\ failure' = "modal"
        /\ closes' = closes + 1
        /\ rowPc' = "push"
        /\ UNCHANGED <<violationRows, violationIndex, modalViolations, seenViolations, parsed>>
     \/ \E view \in DetailViews :
          /\ violationRows' = view
          /\ violationIndex' = 1
          /\ modalViolations' = <<>>
          /\ seenViolations' = {}
          /\ parsed' = <<>>
          /\ rowPc' = "violation"
          /\ UNCHANGED <<closes, failure>>
  /\ UNCHANGED <<rows, rowIndex, rowResults, rowViolations, requested, fates>>
  /\ UNCHANGED <<crawlVars, mergeVars, scoreVars, callVars>>

\* Lines 276-315: one violation row; a row that throws is left out (line 312).
ParseViolation ==
  /\ rowPc = "violation"
  /\ violationIndex <= Len(violationRows)
  /\ \E thrown \in BOOLEAN :
       IF thrown
       THEN /\ parsed' = Append(parsed, [read |-> FALSE, code |-> "", explanation |-> "",
                                         comments |-> ""])
            /\ UNCHANGED <<modalViolations, seenViolations>>
       ELSE LET violationCode == violationRows[violationIndex].code
                codeExplanation == CodeExplanation(violationRows[violationIndex].explanation)
                inspectorComments == InspectorComments(violationRows[violationIndex].comments)
                uniqueKey == UniqueKey(violationCode, codeExplanation, inspectorComments)
            IN /\ parsed' = Append(parsed, [read |-> TRUE, code |-> violationCode,
                                            explanation |-> codeExplanation,
                                            comments |-> inspectorComments])
               /\ IF violationCode # "" /\ uniqueKey \notin seenViolations
                  THEN /\ seenViolations' = seenViolations \cup {uniqueKey}
                       /\ modalViolations' =
                            Append(modalViolations,
                                   [violationCode |-> violationCode,
                                    codeExplanation |-> codeExplanation,
                                    inspectorComments |-> inspectorComments,
                                    section |-> classifyViolation(violationCode)])
                  ELSE UNCHANGED <<modalViolations, seenViolations>>
  /\ violationIndex' = violationIndex + 1
  /\ UNCHANGED <<rowPc, rows, rowIndex, rowResults, rowViolations, violationRows,
                 requested, closes, failure, fates>>
  /\ UNCHANGED <<crawlVars, mergeVars, scoreVars, callVars>>

\* Lines 317-319 and 400-402: closeModal, and the violations go to the row.
ModalReturns ==
  /\ rowPc = "violation"
  /\ violationIndex > Len(violationRows)
  /\ closes' = closes + 1
  /\ rowViolations' = modalViolations
  /\ rowPc' = "push"
  /\ UNCHANGED <<rows, rowIndex, rowResults, violationRows, violationIndex, modalViolations,
                 seenViolations, requested, failure, fates, parsed>>
  /\ UNCHANGED <<crawlVars, mergeVars, scoreVars, callVars>>

\* Lines 409-444: the record is pushed.
PushRecord ==
  /\ rowPc = "push"
  /\ rowResults' = Append(rowResults, RecordOf(rows[rowIndex], rowViolations))
  /\ fates' = Append(fates, [fate |-> "recorded", why |-> failure,
                             at |-> Len(rowResults) + 1])
  /\ rowIndex' = rowIndex + 1
  /\ rowPc' = "row"
  /\ UNCHANGED <<rows, rowViolations, violationRows, violationIndex, modalViolations,
                 seenViolations, requested, closes, failure, parsed>>
  /\ UNCHANGED <<crawlVars, mergeVars, scoreVars, callVars>>

\* Lines 452, 503 and 516: the page's results are returned and concatenated.
ReturnResults ==
  /\ rowPc = "row"
  /\ rowIndex > Len(rows)
  /\ rowPc' = "return"
  /\ allResults' = allResults \o rowResults
  /\ UNCHANGED <<rows, rowIndex, rowResults, rowViolations, violationRows, violationIndex,
                 modalViolations, seenViolations, requested, closes, failure, fates, parsed>>
  /\ UNCHANGED <<pc, pageNum, seenEstablishments, consecutiveDuplicatePages, currentPage,
                 outcome, returned, site, budget, nScraped, lastScraped, pages, lastClick,
                 clicksThisPage, lastWait, links>>
  /\ UNCHANGED <<mergeVars, scoreVars, callVars>>

InitPage ==
  /\ InitRows
  /\ IdleCrawl
  /\ IdleMerge
  /\ IdleScore
  /\ IdleCalls

NextPage ==
  \/ BeginRow
  \/ ClickViolations
  \/ WaitModal
  \/ ParseViolation
  \/ ModalReturns
  \/ PushRecord
  \/ ReturnResults

SpecPage == InitPage /\ [][NextPage]_vars

-----------------------------------------------------------------------------
(* The record of one row, from the codes of its violations *)

\* Lines 301-308: the violations pushed for the codes of a detail view.
ViolationsOf(codes) ==
  [k \in 1..Len(codes) |->
     [violationCode |-> codes[k], codeExplanation |-> "", inspectorComments |-> "",
      section |-> classifyViolation(codes[k])]]

\* Routine inspections with and without the words that set the two flags.
EmitRows ==
  {GridRow(6, "Cafe Roma", "9 Oak Ave", "03/15/2024", t, "2") :
     t \in {"Routine", "Routine Closure", "Routine Follow-up", "ROUTINE REINSPECTION"}}

\* A code of each severity list and one of no list.
EmitCodes == {"3-501.14", "4-501.114", "4-501.11", "6-301.14", "9-999.99"}

InitEmit ==
  /\ callPc = "call"
  /\ \/ callee = "classifyViolation" /\ arg \in CodeTexts
     \/ callee = "results.push"
          /\ arg \in {[row |-> r, codes |-> c] :
                        r \in EmitRows, c \in SeqsUpTo(EmitCodes, MaxViolations)}
  /\ returnValue = ""

\* Lines 409-442: the record pushed for a row whose detail view gave these codes.
EmitRecord ==
  /\ callPc = "call"
  /\ callee = "results.push"
  /\ returnValue' = RecordOf(arg.row, ViolationsOf(arg.codes))
  /\ callPc' = "return"
  /\ UNCHANGED <<callee, arg>>
  /\ UNCHANGED <<crawlVars, mergeVars, scoreVars, rowVars>>

InitEmitting ==
  /\ InitEmit
  /\ IdleCrawl
  /\ IdleMerge
  /\ IdleScore
  /\ IdleRows

NextEmit ==
  \/ ClassifyViolation
  \/ EmitRecord

SpecEmit == InitEmitting /\ [][NextEmit]_vars

-----------------------------------------------------------------------------
(* The crawl's history, read back for the properties below *)

\* The keys of the records of the pages scraped before pages[i].
KeysBefore(i) ==
  UNION {{LoopKey(pages[j].results[k]) : k \in 1..Len(pages[j].results)} : j \in 1..(i - 1)}

\* The o-th page scraped was non-empty and each of its records had a key seen on
\* an earlier page.
DuplicatePageAt(o) ==
  \E i \in 1..Len(pages) :
    /\ pages[i].ord = o
    /\ \A k \in 1..Len(pages[i].results) : LoopKey(pages[i].results[k]) \in KeysBefore(i)

\* How many of the latest pages, up to the o-th, were such pages in a row.
RECURSIVE TrailingDuplicatePages(_)
TrailingDuplicatePages(o) ==
  IF o >= 1 /\ DuplicatePageAt(o) THEN 1 + TrailingDuplicatePages(o - 1) ELSE 0

\* Every record of every page scraped so far, in order.
RECURSIVE RecordsOf(_)
RecordsOf(ps) == IF ps = <<>> THEN <<>> ELSE Head(ps).results \o RecordsOf(Tail(ps))

Accumulated == RecordsOf(pages)

-----------------------------------------------------------------------------
(* C1: the crawl aborts with PaginationLoop as soon as the 3 latest pages  *)
(* scraped were each non-empty and made only of records whose              *)
(* name|address|inspectionDate key was seen before; it aborts for that     *)
(* reason in no other case, and a page that is not such a page (one with a *)
(* new key) puts consecutiveDuplicatePages back to 0.                      *)
C1_PaginationLoop ==
  /\ TrailingDuplicatePages(nScraped) >= 3 => pc = "done" /\ outcome = "PaginationLoop"
  /\ outcome = "PaginationLoop" => TrailingDuplicatePages(nScraped) = 3
  /\ consecutiveDuplicatePages = TrailingDuplicatePages(nScraped)
  /\ (nScraped > 0 /\ ~DuplicatePageAt(nScraped)) => consecutiveDuplicatePages = 0

\* The crawl has aborted on three duplicate pages in a row.
C1_Witness ==
  /\ outcome = "PaginationLoop"
  /\ nScraped = 4
  /\ Len(returned) = 4

(* C2 (as amended): whenever the page number the code reads from the main  *)
(* grid's pager (parseInt of the span text, read as 1 when it is           *)
(* unparseable or 0) differs from pageNum, the crawl aborts with           *)
(* PageMismatch, without a retry and without a click; no pagination click  *)
(* is issued from a state where that number differs from pageNum.          *)
ReadPageNumber(text) ==
  LET n == ParseInt(text) IN IF n = NaN \/ n = 0 THEN 1 ELSE n

C2_MismatchAborts ==
  /\ pc \in {"advance", "verify", "wait"} => currentPage = pageNum
  /\ pc = "advance" => site.pager /\ ReadPageNumber(site.text) = pageNum
  /\ lastClick.kind # "none" => ReadPageNumber(lastClick.text) = lastClick.pageNum
  /\ outcome = "PageMismatch" =>
       /\ pc = "done"
       /\ clicksThisPage = 0
       /\ site.pager /\ ReadPageNumber(site.text) # pageNum

\* A direct click did not lead to the expected page and the crawl aborted.
C2_Witness ==
  /\ outcome = "PageMismatch"
  /\ lastClick.kind = "direct"
  /\ pageNum = lastClick.pageNum + 1
  /\ clicksThisPage = 0

(* C2 as stated: no pagination click is issued from a state where the page *)
(* number the pager displays differs from pageNum.                         *)
C2_AsStated ==
  lastClick.kind # "none" => ParseInt(lastClick.text) = lastClick.pageNum

(* C3: an advance through the "..." control clicks once; the crawl goes on *)
(* to the next page, with pageNum incremented by 1, exactly when the main  *)
(* grid's pager is seen to show pageNum+1; otherwise it aborts with        *)
(* NavigationVerificationFailed and scrapes no further page.               *)
C3_EllipsisAdvance ==
  [][ /\ (pc = "advance" /\ pc' = "verify") =>
           /\ lastClick'.kind = "ellipsis"
           /\ clicksThisPage' = 1
      /\ pc = "verify" =>
           /\ lastClick' = lastClick
           /\ clicksThisPage' = clicksThisPage
           /\ IF site.pager /\ ParseInt(site.text) = pageNum + 1
              THEN pc' = "scrape" /\ pageNum' = pageNum + 1 /\ outcome' = ""
              ELSE /\ pc' = "done"
                   /\ outcome' = "NavigationVerificationFailed"
                   /\ pageNum' = pageNum
                   /\ nScraped' = nScraped
      /\ outcome = "NavigationVerificationFailed" => nScraped' = nScraped /\ pc' = "done"
    ]_vars

\* The "..." click was verified and the crawl is about to scrape the next page.
C3_Witness ==
  /\ pc = "scrape"
  /\ lastClick.kind = "ellipsis"
  /\ pageNum = lastClick.pageNum + 1
  /\ lastWait = "ok"

(* C4: no page is ever scraped with pageNum above 1000, whichever advance  *)
(* path produced the increment.                                            *)
C4_HardCeiling == lastScraped <= PAGE_LIMIT

(* C5: on each of the four crawl-fatal conditions the loop stops at once   *)
(* and returns every record of every page scraped so far.                  *)
C5_FatalStopsWithPartialResults ==
  /\ outcome \in {"PaginationLoop", "PageMismatch", "NavigationVerificationFailed",
                  "PageLimit"} =>
       pc = "done" /\ returned = Accumulated
  /\ pageNum > PAGE_LIMIT =>
       pc = "done" /\ outcome = "PageLimit" /\ returned = Accumulated

(* C6: the dataset a run persists holds at most one record per cross-      *)
(* record key lowercase(trim(name))|lowercase(trim(address)), with a prior *)
(* file and without one.                                                   *)
C6_OneRecordPerKey ==
  (mainPc = "end" /\ allData # <<>>) => UniqueKeys(file.records)

(* C7: for every key in keepMostRecentInspections' input there is one      *)
(* output record, and its inspectionDate is not before that of any input   *)
(* record with the key, whatever the order of the input.                   *)
C7_MostRecentKept ==
  (mainPc = "write" /\ input # <<>>) =>
    /\ UniqueKeys(finalData)
    /\ \A i \in 1..Len(input) :
         DateTime(input[i].inspectionDate) # NaN =>
           \E j \in 1..Len(finalData) :
             /\ CrossKey(finalData[j]) = CrossKey(input[i])
             /\ DateTime(finalData[j].inspectionDate) # NaN
             /\ DateTime(finalData[j].inspectionDate) >= DateTime(input[i].inspectionDate)

(* C8: merging a dataset with itself, the file's records D with a run that *)
(* returns D again, gives D: as many records, each with the same fields.   *)
C8_MergeIdempotent ==
  (mainPc = "write" /\ file.exists /\ allData = file.records) => finalData = file.records

(* C9: for a record whose key the Map holds: if its date is strictly later *)
(* the kept record becomes the incoming record, field for field, as it was *)
(* passed; else, if the kept record lacks facilityType and the incoming    *)
(* one has it, only that field of the kept record changes; else the kept   *)
(* record stays as it is.  No other key's record changes.                  *)
C9_BackfillThenReplace ==
  [][ (mainPc = "keep" /\ idx' = idx + 1 /\ MapHas(byEstablishment, CrossKey(data[idx]))) =>
        LET record == data[idx]
            i == MapIndex(byEstablishment, CrossKey(record))
            existing == data[byEstablishment[i].ref]
            before == MapValues(byEstablishment, data)
            after == MapValues(byEstablishment', data')
            kept == after[i]
            later == /\ DateTime(record.inspectionDate) # NaN
                     /\ DateTime(existing.inspectionDate) # NaN
                     /\ DateTime(record.inspectionDate) > DateTime(existing.inspectionDate)
        IN /\ Len(after) = Len(before)
           /\ \A k \in 1..Len(before) : k # i => after[k] = before[k]
           /\ IF later
              THEN kept = input[idx]
              ELSE IF existing.facilityType = "" /\ record.facilityType # ""
              THEN /\ kept.facilityType = record.facilityType
                   /\ \A f \in DOMAIN existing \ {"facilityType"} : kept[f] = existing[f]
              ELSE kept = existing
    ]_vars

\* A kept record got its facilityType from a later record, and a still later
\* record of the key, with a later date, has replaced it.
C9_Witness ==
  /\ mainPc = "keep"
  /\ \E j \in 1..Len(data) :
       /\ data[j] # input[j]
       /\ \E i \in 1..Len(byEstablishment) :
            /\ byEstablishment[i].key = CrossKey(data[j])
            /\ byEstablishment[i].ref > j
            /\ data[byEstablishment[i].ref] = input[byEstablishment[i].ref]

(* C10: calculateRiskScore returns min(sum of the violations' points + 50  *)
(* if closureFlag + 10 if reinspectionFlag, 100), an integer in 0..100;    *)
(* a sum above 100 gives exactly 100.                                      *)
RECURSIVE PointSum(_)
PointSum(vs) ==
  IF vs = <<>> THEN 0 ELSE getViolationPoints(CodeOf(vs[Len(vs)])) + PointSum(SubSeq(vs, 1, Len(vs) - 1))

RawScore ==
  PointSum(violations) + (IF closureFlag THEN 50 ELSE 0) + (IF reinspectionFlag THEN 10 ELSE 0)

C10_RiskScoreClamped ==
  scorePc = "return" =>
    /\ riskScore \in 0..100
    /\ riskScore = IF RawScore <= 100 THEN RawScore ELSE 100

\* A sum above 100 was scored.
C10_Witness ==
  /\ scorePc = "return"
  /\ RawScore > 100
  /\ riskScore = 100

(* C11: the four severity lists are looked up in the order HIGH, MEDIUM,   *)
(* LOW, CORE on the trimmed code, and the first list with a code that is   *)
(* at the start of, or inside, the text decides: critical with 15, 8 or 3  *)
(* points for HIGH, MEDIUM, LOW, noncritical with 1 point for CORE.  Each  *)
(* code listed in a table gets its own table's section and points.  A text *)
(* with no listed code is critical with 8 points if it starts with 2-, 3-, *)
(* 4- or 5-, and noncritical with 1 point otherwise.                       *)
InList(text, list) == \E c \in CodesOf(list) : Includes(text, c)

Verdict(section, points) == [section |-> section, points |-> points]

C11_FirstTableWins ==
  (callPc = "return" /\ callee = "classifyViolation") =>
    LET text == Trim(arg)
    IN /\ arg \in CodesOf(HIGH_PRIORITY) => returnValue = Verdict("critical", 15)
       /\ arg \in CodesOf(MEDIUM_PRIORITY) => returnValue = Verdict("critical", 8)
       /\ arg \in CodesOf(LOW_PRIORITY) => returnValue = Verdict("critical", 3)
       /\ arg \in CodesOf(CORE) => returnValue = Verdict("noncritical", 1)
       /\ returnValue =
            IF InList(text, HIGH_PRIORITY) THEN Verdict("critical", 15)
            ELSE IF InList(text, MEDIUM_PRIORITY) THEN Verdict("critical", 8)
            ELSE IF InList(text, LOW_PRIORITY) THEN Verdict("critical", 3)
            ELSE IF InList(text, CORE) THEN Verdict("noncritical", 1)
            ELSE IF Len(text) >= 2 /\ SubSeq(text, 1, 2) \in {"2-", "3-", "4-", "5-"}
                 THEN Verdict("critical", 8)
                 ELSE Verdict("noncritical", 1)

\* A MEDIUM code that has a LOW code inside it was classified by the MEDIUM list.
C11_Witness ==
  /\ callPc = "return"
  /\ callee = "classifyViolation"
  /\ arg = "4-501.114"
  /\ InList(arg, LOW_PRIORITY)
  /\ returnValue = Verdict("critical", 8)

(* C12: for every score s in 0..100 getRiskLevel(s) is EXCELLENT for s = 0, *)
(* LOW for 1..5, MEDIUM for 6..20, HIGH for 21..40 and CRITICAL for 41 and  *)
(* above; each score is in exactly one of the five bands and the bands      *)
(* cover 0..100.                                                            *)
Band(level) ==
  CASE level = "EXCELLENT" -> {0}
    [] level = "LOW" -> 1..5
    [] level = "MEDIUM" -> 6..20
    [] level = "HIGH" -> 21..40
    [] level = "CRITICAL" -> 41..MAX_SCORE

RiskLevels == {"EXCELLENT", "LOW", "MEDIUM", "HIGH", "CRITICAL"}

C12_RiskBands ==
  (callPc = "return" /\ callee = "getRiskLevel") =>
    /\ returnValue \in RiskLevels
    /\ arg \in Band(returnValue)
    /\ \A level \in RiskLevels \ {returnValue} : arg \notin Band(level)
    /\ UNION {Band(level) : level \in RiskLevels} = 0..MAX_SCORE

\* The upper limit of a band was given that band's level.
C12_Witness ==
  /\ callPc = "return"
  /\ callee = "getRiskLevel"
  /\ arg = 20
  /\ returnValue = "MEDIUM"

(* C13: categorizeFacility returns the category of greatest priority among *)
(* the categories with a keyword that is a substring of the lowercased     *)
(* "name addr", wherever the keywords are in the text, and Restaurant      *)
(* exactly when no keyword of any category is in the text.                 *)
Candidates(text) ==
  {k \in 1..Len(FACILITY_CATEGORIES) :
     \E w \in 1..Len(FACILITY_CATEGORIES[k].keywords) :
       Includes(text, FACILITY_CATEGORIES[k].keywords[w])}

C13_PriorityMonotonic ==
  (callPc = "return" /\ callee = "categorizeFacility") =>
    LET text == ToLowerCase(arg.name \o " " \o arg.addr)
        candidates == Candidates(text)
    IN /\ candidates # {} =>
            \E k \in candidates :
              /\ returnValue = FACILITY_CATEGORIES[k].category
              /\ \A other \in candidates :
                   FACILITY_CATEGORIES[other].priority <= FACILITY_CATEGORIES[k].priority
       /\ returnValue = "Restaurant" <=> candidates = {}

\* A name with a priority-3 keyword before a priority-10 keyword got the
\* priority-10 category.
C13_Witness ==
  /\ callPc = "return"
  /\ callee = "categorizeFacility"
  /\ arg = [name |-> "Bakery at Lincoln School", addr |-> ""]
  /\ returnValue = "School"

(* C14: for every row whose violations link was clicked, closeModal is     *)
(* invoked before the next row is taken (or the page returned): after the  *)
(* parse, when the detail view never appears, when the click fails and     *)
(* when an exception is caught.                                            *)
C14_CloseAlwaysInvoked ==
  (rowPc \in {"row", "return"} /\ requested) => closes >= 1

(* C15: a failure in one row (too few columns, a throwing read, a click    *)
(* error, a detail view that does not appear or throws) never ends the     *)
(* page: such a row is skipped, or recorded with an empty violations list; *)
(* the function is always at one of its own positions (no exception leaves *)
(* it), rows are taken one after the other, and the results are returned   *)
(* only after the last row was taken.                                      *)
C15_RowFailureIsLocal ==
  /\ Len(fates) = rowIndex - 1
  /\ rowPc \in {"click", "modal", "violation", "push"} => rowIndex <= Len(rows)
  /\ rowPc = "return" => Len(fates) = Len(rows)
  /\ rowPc \in {"row", "click", "modal", "violation", "push", "return"}
  /\ \A k \in 1..Len(fates) :
       /\ fates[k].why \in {"exception", "columns"} => fates[k].fate = "skipped"
       /\ fates[k].why \in {"click", "reveal", "modal"} =>
            /\ fates[k].fate = "recorded"
            /\ rowResults[fates[k].at].violations = <<>>
       /\ fates[k].fate = "recorded" =>
            /\ fates[k].at \in 1..Len(rowResults)
            /\ rowResults[fates[k].at].name = Trim(rows[k].name)
            /\ rowResults[fates[k].at].inspectionDate = rows[k].inspectionDate
  /\ Len(rowResults) = Cardinality({k \in 1..Len(fates) : fates[k].fate = "recorded"})

\* The click failed in the first row; the second row was recorded with its
\* violations and the page's results were returned.
C15_Witness ==
  /\ rowPc = "return"
  /\ Len(fates) = 2
  /\ fates[1].why = "click"
  /\ fates[2].fate = "recorded"
  /\ fates[2].why = ""
  /\ rowResults[fates[2].at].violations # <<>>

(* C16: a row whose inspection type does not contain "routine", in any     *)
(* case of the letters, gives no record and no click of its violations     *)
(* link; every record of the page's results and of the crawl's accumulated *)
(* results has an inspectionType containing "routine".                     *)
RoutineText(text) ==
  \E p \in 1..(Len(text) - 6) : ToLowerCase(SubSeq(text, p, p + 6)) = "routine"

LatestRow == IF rowPc \in {"row", "return"} THEN rowIndex - 1 ELSE rowIndex

C16_RoutineOnly ==
  /\ \A k \in 1..Len(rowResults) : RoutineText(rowResults[k].inspectionType)
  /\ \A k \in 1..Len(allResults) : RoutineText(allResults[k].inspectionType)
  /\ \A k \in 1..Len(fates) :
       ~RoutineText(rows[k].inspectionType) => fates[k].fate = "skipped"
  /\ rowPc \in {"click", "modal", "violation", "push"} =>
       RoutineText(rows[rowIndex].inspectionType)
  /\ requested => RoutineText(rows[LatestRow].inspectionType)

\* A complaint inspection with a violations link was skipped without a click and
\* the routine inspection after it was recorded.
C16_Witness ==
  /\ rowPc = "return"
  /\ Len(rows) = 2
  /\ rows[1].inspectionType = "Complaint"
  /\ HasViolations(rows[1].violationsText)
  /\ fates[1].fate = "skipped"
  /\ Len(allResults) = 1
  /\ allResults[1].inspectionType = "Routine"

(* C17: the violation list of one detail view has no two entries with the  *)
(* same (code, explanation, comments); of the rows with a code, the first  *)
(* row with each triple is kept and only that one, in the rows' order.     *)
Triple(code, explanation, comments) == <<code, explanation, comments>>

FirstOccurrence(k) ==
  /\ parsed[k].read
  /\ parsed[k].code # ""
  /\ \A m \in 1..(k - 1) :
       ~(/\ parsed[m].read
         /\ Triple(parsed[m].code, parsed[m].explanation, parsed[m].comments)
              = Triple(parsed[k].code, parsed[k].explanation, parsed[k].comments))

RECURSIVE FirstTriples(_)
FirstTriples(k) ==
  IF k = 0 THEN <<>>
  ELSE IF FirstOccurrence(k)
       THEN Append(FirstTriples(k - 1),
                   Triple(parsed[k].code, parsed[k].explanation, parsed[k].comments))
       ELSE FirstTriples(k - 1)

KeptTriples ==
  [a \in 1..Len(modalViolations) |->
     Triple(modalViolations[a].violationCode, modalViolations[a].codeExplanation,
            modalViolations[a].inspectorComments)]

C17_FirstOccurrenceKept ==
  rowPc = "violation" =>
    /\ \A a, b \in 1..Len(KeptTriples) : KeptTriples[a] = KeptTriples[b] => a = b
    /\ KeptTriples = FirstTriples(Len(parsed))

(* C18: whatever the site serves, the crawl loop has reached a terminal    *)
(* state by the time it has scraped as many pages as the page ceiling      *)
(* allows: it is never about to scrape one more page after 1000 pages.     *)
C18_BoundedTermination ==
  pc = "scrape" => nScraped < PAGE_LIMIT

(* C19: on a page that passed the page check, a visible direct link to     *)
(* pageNum+1 is clicked and the "..." control is not; the "..." control is *)
(* clicked only when no direct link is visible; the loop ends normally     *)
(* exactly when the main pager is absent or neither control is visible.    *)
C19_AdvanceOrder ==
  [][ /\ pc = "advance" =>
           /\ links'.seen
           /\ pageNum = currentPage
           /\ links'.next =>
                /\ lastClick' = [kind |-> "direct", pageNum |-> pageNum, text |-> site.text]
                /\ clicksThisPage' = clicksThisPage + 1
                /\ pc' = "wait"
           /\ (~links'.next /\ links'.ellipsis) =>
                /\ lastClick' = [kind |-> "ellipsis", pageNum |-> pageNum, text |-> site.text]
                /\ clicksThisPage' = clicksThisPage + 1
                /\ pc' = "verify"
           /\ (~links'.next /\ ~links'.ellipsis) =>
                /\ lastClick' = lastClick
                /\ clicksThisPage' = clicksThisPage
                /\ pc' = "done"
           /\ lastClick'.kind = "ellipsis" /\ clicksThisPage' # clicksThisPage =>
                ~links'.next
      /\ (outcome = "" /\ outcome' \in {"NoPager", "NoMorePages"}) <=>
           \/ pc = "pager" /\ ~site.pager
           \/ pc = "advance" /\ ~links'.next /\ ~links'.ellipsis
    ]_vars

\* Both controls were visible and the direct link was the one clicked.
C19_Witness ==
  /\ pc = "wait"
  /\ links.next
  /\ links.ellipsis
  /\ lastClick.kind = "direct"
  /\ clicksThisPage = 1

(* C20: after a direct-link click, whether the wait for the page number    *)
(* succeeds or times out, the crawl does not abort: pageNum goes up by     *)
(* exactly 1 and the loop scrapes again, unless pageNum is then above the  *)
(* ceiling.  pageNum starts at 1 and changes only by such steps of +1.     *)
C20_SoftWait ==
  [][ /\ pc = "wait" =>
           /\ lastWait' \in {"ok", "timeout"}
           /\ pageNum' = pageNum + 1
           /\ allResults' = allResults
           /\ IF pageNum + 1 > PAGE_LIMIT
              THEN pc' = "done" /\ outcome' = "PageLimit"
              ELSE pc' = "scrape" /\ outcome' = ""
      /\ pc = "submit" => pageNum' = pageNum \/ pageNum' = 1
      /\ (pc # "submit" /\ outcome # "NoRecords") => pageNum >= 1
      /\ (pc # "submit" /\ pageNum' # pageNum) =>
           /\ pc \in {"wait", "verify"}
           /\ pageNum' = pageNum + 1
    ]_vars

\* The wait after a direct click timed out and the next page is about to be scraped.
C20_Witness ==
  /\ pc = "scrape"
  /\ lastClick.kind = "direct"
  /\ lastWait = "timeout"
  /\ pageNum = lastClick.pageNum + 1

(* C21: the page check comes after the page was scraped and its records   *)
(* appended: when the crawl aborts with PageMismatch the returned results  *)
(* end with the records scraped from the page that failed the check; after *)
(* a direct click that left the page as it was, these are the records of   *)
(* the page before, which are then in the results twice.                   *)
LastPage == pages[Len(pages)]

\* The page scraped last gave records and the page scraped before it gave the same.
StalePage ==
  /\ Len(pages) >= 2
  /\ LastPage.ord = nScraped
  /\ pages[Len(pages) - 1].ord = nScraped - 1
  /\ pages[Len(pages) - 1].results = LastPage.results

Suffix(records, n) == SubSeq(records, Len(records) - n + 1, Len(records))

C21_CheckAfterAppend ==
  /\ pc = "pager" => lastScraped = pageNum /\ allResults = Accumulated
  /\ outcome = "PageMismatch" =>
       /\ lastScraped = pageNum
       /\ currentPage # pageNum
       /\ returned = Accumulated
       /\ (Len(pages) >= 1 /\ LastPage.ord = nScraped) =>
            /\ LastPage.num = pageNum
            /\ Suffix(returned, Len(LastPage.results)) = LastPage.results
       /\ StalePage =>
            Suffix(returned, 2 * Len(LastPage.results)) = LastPage.results \o LastPage.results

\* A direct click left the pager at the page before; that page's records were
\* scraped again and are twice in the results returned with PageMismatch.
C21_Witness ==
  /\ outcome = "PageMismatch"
  /\ lastClick.kind = "direct"
  /\ pageNum = lastClick.pageNum + 1
  /\ currentPage = lastClick.pageNum
  /\ site.text = lastClick.text
  /\ lastWait = "timeout"
  /\ StalePage
  /\ Len(returned) = 2 * Len(LastPage.results)

(* C22: a page without records puts consecutiveDuplicatePages back to 0,   *)
(* like a page with a new record: PaginationLoop needs the three latest    *)
(* pages to have records, so all-duplicate pages with empty pages between  *)
(* them never trigger it, and a crawl over empty pages only is never       *)
(* stopped by the loop detection.                                          *)
C22_EmptyPageResets ==
  [][ /\ (pc = "scrape" /\ nScraped' = nScraped + 1 /\ pages' = pages) =>
           /\ consecutiveDuplicatePages' = 0
           /\ outcome' = ""
           /\ pc' = "pager"
      /\ outcome' = "PaginationLoop" =>
           \A o \in {nScraped', nScraped' - 1, nScraped' - 2} :
             \E k \in 1..Len(pages') : pages'[k].ord = o
      /\ pages' = <<>> => consecutiveDuplicatePages' = 0 /\ outcome' # "PaginationLoop"
    ]_vars

\* Two all-duplicate pages with a page without records between them: the counter
\* is at 1 after the second and the crawl goes on.
C22_Witness ==
  /\ nScraped = 4
  /\ Len(pages) = 3
  /\ pages[3].ord = 4
  /\ DuplicatePageAt(2)
  /\ DuplicatePageAt(4)
  /\ consecutiveDuplicatePages = 1
  /\ pc = "pager"

(* C23: the output of keepMostRecentInspections has each cross-record key  *)
(* of its input (the file's records, then the run's) exactly once and no   *)
(* other key, in the order in which the keys first occur in the input.     *)
RECURSIVE FirstKeys(_)
FirstKeys(records) ==
  IF records = <<>> THEN <<>>
  ELSE LET rest == FirstKeys(SubSeq(records, 1, Len(records) - 1))
           key == CrossKey(records[Len(records)])
       IN IF \E k \in 1..Len(rest) : rest[k] = key THEN rest ELSE Append(rest, key)

KeysOf(records) == [k \in 1..Len(records) |-> CrossKey(records[k])]

C23_KeysPreserved ==
  (mainPc = "write" /\ input # <<>>) =>
    /\ {CrossKey(finalData[k]) : k \in 1..Len(finalData)}
         = {CrossKey(input[k]) : k \in 1..Len(input)}
    /\ UniqueKeys(finalData)
    /\ KeysOf(finalData) = FirstKeys(input)

\* The third record of the input replaced the first, of the same establishment,
\* and is listed before the record of the establishment that came second.
C23_Witness ==
  /\ mainPc = "write"
  /\ Len(input) >= 3
  /\ CrossKey(input[1]) # CrossKey(input[2])
  /\ CrossKey(input[3]) = CrossKey(input[1])
  /\ Len(finalData) = 2
  /\ finalData[1] = input[3]
  /\ finalData[1] # input[1]

(* C24: when a record of the new run meets the file's record of the same   *)
(* key and its date is the same, earlier or unparseable, the file's record *)
(* stays the kept one: nothing of the new record is taken but facilityType *)
(* when the file's record lacks it, and the file's record is in the output.*)
PriorCount == Len(file.records)

C25_EmptyRunWritesNothing ==
  [][ /\ file' # file =>
           /\ mainPc = "write"
           /\ allData # <<>>
           /\ file' = [exists |-> TRUE, records |-> finalData]
      /\ (mainPc = "crawl" /\ allData' = <<>>) => mainPc' = "end" /\ file' = file
      /\ mainPc' \in {"merge", "keep", "write"} => allData' # <<>>
    ]_vars

\* A run with a file of records ended with nothing scraped.
C25_Witness ==
  /\ mainPc = "end"
  /\ allData = <<>>
  /\ finalData = <<>>
  /\ file.exists
  /\ Len(file.records) >= 1

(* C26: for every violation code classifyViolation gives noncritical      *)
(* exactly when getViolationPoints gives 1, and the points are one of 15,  *)
(* 8, 3, 1; so in every record pushed criticalCount + noncriticalCount =   *)
(* totalViolations, and riskScore is 0 exactly when the record has no      *)
(* violation and neither flag.                                             *)
C26_LookupsAgree ==
  /\ (callPc = "return" /\ callee = "classifyViolation") =>
       /\ returnValue.section \in {"critical", "noncritical"}
       /\ returnValue.points \in {15, 8, 3, 1}
       /\ returnValue.section = "noncritical" <=> returnValue.points = 1
  /\ (callPc = "return" /\ callee = "results.push") =>
       /\ returnValue.totalViolations = Len(arg.codes)
       /\ returnValue.criticalCount + returnValue.noncriticalCount
            = returnValue.totalViolations
       /\ returnValue.riskScore = 0 <=>
            /\ returnValue.violations = <<>>
            /\ ~returnValue.closureFlag
            /\ ~returnValue.reinspectionFlag

\* A record with two critical violations and a noncritical one was pushed.
C26_Witness ==
  /\ callPc = "return"
  /\ callee = "results.push"
  /\ returnValue.criticalCount = 2
  /\ returnValue.noncriticalCount = 1
  /\ returnValue.riskScore > 0

====
